---------------------------- MODULE Spec2Model ----------------------------
(***************************************************************************)
(* Model of gear_range_calc: drivetrain.py (Casette, Chainring, Wheel,     *)
(* Drivetrain) and the "Add Configuration" block of gearrange_viewer.py.   *)
(*                                                                         *)
(* Objects live in heaps (sequences indexed by object id, None = 0).       *)
(* A pandas DataFrame is a heap object [columns, data, index]: the ordered *)
(* column labels, the column values and the number of rows.  The frame a   *)
(* cached_property returns is the object stored in the instance, so every  *)
(* later item assignment on it is seen through every reference.            *)
(*                                                                         *)
(* Numbers are exact rationals [n, d] in lowest terms.  perimeter,         *)
(* unfolding and speed_* are held in units of pi (math.pi is a common      *)
(* positive factor of all of them).                                        *)
(***************************************************************************)
EXTENDS Integers, Sequences, FiniteSets

VARIABLES chainrings, casettes, wheels, drivetrains, frames, session, last,
          firstRatio

vars == <<chainrings, casettes, wheels, drivetrains, frames, session, last,
          firstRatio>>

None == 0

(***************************************************************************)
(* Bounds of the model and the input sets the calls draw from.             *)
(***************************************************************************)
MaxCogs == 2
MaxRpmLen == 3
MaxDrivetrains == 2

Teeth == {2, 3}
Diameters == {700}
TyreOffsets == {10}
Rpms == {60, 120}
Names == {"Configuration 1"}

SeqsUpTo(S, n) == UNION {[1..k -> S] : k \in 0..n}

Range(s) == {s[i] : i \in 1..Len(s)}

CogLists == SeqsUpTo(Teeth, MaxCogs)

\* Python values whose type the code inspects or depends on.
PyInt(v) == [type |-> "int", value |-> v]
PyFloat(v) == [type |-> "float", value |-> v]
PyTuple(v) == [type |-> "tuple", value |-> v]

RpmArgs == {PyInt(r) : r \in Rpms} \cup {PyTuple(t) : t \in SeqsUpTo(Rpms, MaxRpmLen)}

WheelArgs == {PyFloat(d) : d \in Diameters}
                \cup {PyTuple(<<d, t>>) : d \in Diameters, t \in TyreOffsets}

(***************************************************************************)
(* Exact arithmetic.                                                       *)
(***************************************************************************)
RECURSIVE GCD(_, _)
GCD(a, b) == IF b = 0 THEN a ELSE GCD(b, a % b)

Rat(n, d) == LET g == GCD(n, d) IN [n |-> n \div g, d |-> d \div g]

Whole(n) == Rat(n, 1)

RatMul(x, y) == Rat(x.n * y.n, x.d * y.d)

RatDiv(x, y) == Rat(x.n * y.d, x.d * y.n)

RatAdd(x, y) == Rat(x.n * y.d + y.n * x.d, x.d * y.d)

RatLeq(x, y) == x.n * y.d <= y.n * x.d

(***************************************************************************)
(* sorted(): insertion sort, ascending, duplicates kept.                   *)
(***************************************************************************)
RECURSIVE Insert(_, _)
Insert(x, s) ==
    IF s = <<>> THEN <<x>>
    ELSE IF x <= Head(s) THEN <<x>> \o s
    ELSE <<Head(s)>> \o Insert(x, Tail(s))

RECURSIVE Sorted(_)
Sorted(s) == IF s = <<>> THEN <<>> ELSE Insert(Head(s), Sorted(Tail(s)))

(***************************************************************************)
(* pandas: DataFrame(dict), df[label] = column, df[label] = scalar.        *)
(***************************************************************************)
DataFrame(labels, dict, n) == [columns |-> labels, data |-> dict, index |-> n]

SetItem(df, label, column) ==
    [columns |-> IF label \in Range(df.columns) THEN df.columns
                 ELSE Append(df.columns, label),
     data    |-> [c \in Range(df.columns) \cup {label} |->
                    IF c = label THEN column ELSE df.data[c]],
     index   |-> df.index]

Broadcast(df, v) == [i \in 1..df.index |-> v]

(***************************************************************************)
(* Casette, Chainring, Wheel.                                              *)
(***************************************************************************)
\* Wheel.tyre_offset default
DefaultTyreOffset == 20

\* Casette.__post_init__ (sets n_by; n_speed is never assigned).
NewCasetteObject(cogs) == [cogs |-> cogs, n_by |-> Len(cogs)]

\* Chainring.__post_init__
NewChainringObject(cogs) == [cogs |-> cogs, n_by |-> Len(cogs)]

\* Wheel.__post_init__: tuple + int raises TypeError.
NewWheelObject(diameter, tyre_offset) ==
    IF diameter.type = "tuple"
    THEN [raised |-> "TypeError"]
    ELSE [raised |-> "",
          diameter |-> diameter.value + (tyre_offset * 2),
          perimeter |-> Whole(diameter.value + (tyre_offset * 2))]

\* Chainring.__mul__: the inner loop over other.cogs for one chain_cog.
RECURSIVE MulInner(_, _, _, _)
MulInner(ratios, chain_cog, others, j) ==
    IF j > Len(others) THEN ratios
    ELSE MulInner([chain_cog   |-> Append(ratios.chain_cog, chain_cog),
                   casette_cog |-> Append(ratios.casette_cog, others[j]),
                   ratio       |-> Append(ratios.ratio, Rat(chain_cog, others[j]))],
                  chain_cog, others, j + 1)

\* Chainring.__mul__: the outer loop over self.cogs.
RECURSIVE MulOuter(_, _, _, _)
MulOuter(ratios, cogs, others, i) ==
    IF i > Len(cogs) THEN ratios
    ELSE MulOuter(MulInner(ratios, cogs[i], others, 1), cogs, others, i + 1)

\* A plausible slip: the loops nested the other way round.
MulCasetteMajor(cogs, others) ==
    LET swapped == MulOuter([chain_cog |-> <<>>, casette_cog |-> <<>>, ratio |-> <<>>],
                            others, cogs, 1)
    IN  DataFrame(<<"chain_cog", "casette_cog", "ratio">>,
                  [chain_cog   |-> swapped.casette_cog,
                   casette_cog |-> swapped.chain_cog,
                   ratio       |-> [k \in 1..Len(swapped.ratio) |->
                                      Rat(swapped.casette_cog[k], swapped.chain_cog[k])]],
                  Len(swapped.ratio))

\* Chainring.__mul__
Mul(cogs, others) ==
    LET ratios == MulOuter([chain_cog |-> <<>>, casette_cog |-> <<>>, ratio |-> <<>>],
                           cogs, others, 1)
    IN  DataFrame(<<"chain_cog", "casette_cog", "ratio">>, ratios, Len(ratios.ratio))

(***************************************************************************)
(* Drivetrain.  The query operators take and return the two heaps a query  *)
(* can change (drivetrains: the instances' __dict__ caches; frames).       *)
(***************************************************************************)
NewDrivetrainObject(c, k, w) ==
    [chainring |-> c, casette |-> k, wheel |-> w, ratio |-> None, unfolding |-> None]

\* Object ids are opaque.  A new DataFrame takes the id of the instance that
\* creates it when that id is free, else the smallest free id.
FreshId(frs, self) ==
    IF self \notin DOMAIN frs THEN self
    ELSE CHOOSE i \in 1..(Cardinality(DOMAIN frs) + 1) : i \notin DOMAIN frs

Allocate(frs, id, df) == [i \in DOMAIN frs \cup {id} |-> IF i = id THEN df ELSE frs[i]]

\* A plausible slip: the cache keyed on the parts instead of the instance.
CachedRatioShared(dts, frs, self) ==
    LET same == {e \in 1..Len(dts) : /\ dts[e].chainring = dts[self].chainring
                                     /\ dts[e].casette = dts[self].casette
                                     /\ dts[e].ratio # None}
    IN  IF same # {}
        THEN LET e == CHOOSE e \in same : TRUE
             IN  [drivetrains |-> [dts EXCEPT ![self].ratio = dts[e].ratio],
                  frames |-> frs, ret |-> dts[e].ratio]
        ELSE [drivetrains |-> [dts EXCEPT ![self].ratio = FreshId(frs, self)],
              frames |-> Allocate(frs, FreshId(frs, self),
                                  Mul(chainrings[dts[self].chainring].cogs,
                                      casettes[dts[self].casette].cogs)),
              ret |-> FreshId(frs, self)]

\* Drivetrain.ratio (cached_property)
CachedRatio(dts, frs, self) ==
    IF dts[self].ratio # None
    THEN [drivetrains |-> dts, frames |-> frs, ret |-> dts[self].ratio]
    ELSE [drivetrains |-> [dts EXCEPT ![self].ratio = FreshId(frs, self)],
          frames |-> Allocate(frs, FreshId(frs, self),
                              Mul(chainrings[dts[self].chainring].cogs,
                                  casettes[dts[self].casette].cogs)),
          ret |-> FreshId(frs, self)]

\* Drivetrain.unfolding (cached_property): writes into the frame ratio returned.
CachedUnfolding(dts, frs, self) ==
    IF dts[self].unfolding # None
    THEN [drivetrains |-> dts, frames |-> frs, ret |-> dts[self].unfolding]
    ELSE LET r == CachedRatio(dts, frs, self)
             ratio == r.frames[r.ret]
             perimeter == wheels[dts[self].wheel].perimeter
             column == [i \in 1..ratio.index |->
                          RatDiv(RatMul(ratio.data["ratio"][i], perimeter), Whole(1000))]
         IN  [drivetrains |-> [r.drivetrains EXCEPT ![self].unfolding = r.ret],
              frames |-> [r.frames EXCEPT ![r.ret] = SetItem(ratio, "unfolding", column)],
              ret |-> r.ret]

\* Drivetrain.speed: isinstance(rpm, int) -> (rpm,)
AsTuple(rpm) == IF rpm.type = "int" THEN <<rpm.value>> ELSE rpm.value

\* A plausible slip: the bound of the assert off by one.
RpmAcceptedUpToThree(rpm) == Len(rpm) <= 3

\* Drivetrain.speed: assert len(rpm) <= 2
RpmAccepted(rpm) == Len(rpm) <= 2

\* A plausible slip: the pair is not sorted.
RpmPointsUnsorted(rpm) ==
    IF Len(rpm) = 2
    THEN <<Whole(rpm[1]),
           RatAdd(Whole(rpm[1]), RatDiv(Whole(rpm[2] - rpm[1]), Whole(2))),
           Whole(rpm[2])>>
    ELSE [i \in 1..Len(rpm) |-> Whole(rpm[i])]

\* A plausible slip: the middle point taken as half the span.
RpmPointsHalfSpan(rpm) ==
    LET s == Sorted(rpm)
    IN  IF Len(s) = 2
        THEN <<Whole(s[1]), RatDiv(Whole(s[2] - s[1]), Whole(2)), Whole(s[2])>>
        ELSE [i \in 1..Len(s) |-> Whole(s[i])]

\* Drivetrain.speed: sorted(rpm) and the middle point of a pair.
RpmPoints(rpm) ==
    LET s == Sorted(rpm)
    IN  IF Len(s) = 2
        THEN <<Whole(s[1]), RatAdd(Whole(s[1]), RatDiv(Whole(s[2] - s[1]), Whole(2))), Whole(s[2])>>
        ELSE [i \in 1..Len(s) |-> Whole(s[i])]

Suffixes == <<"_lower", "_middle", "_upper">>

\* 'speed' + suffix and 'rpm' + suffix
Label(prefix, suffix) ==
    CASE prefix = "speed" /\ suffix = "_lower"  -> "speed_lower"
      [] prefix = "speed" /\ suffix = "_middle" -> "speed_middle"
      [] prefix = "speed" /\ suffix = "_upper"  -> "speed_upper"
      [] prefix = "rpm"   /\ suffix = "_lower"  -> "rpm_lower"
      [] prefix = "rpm"   /\ suffix = "_middle" -> "rpm_middle"
      [] prefix = "rpm"   /\ suffix = "_upper"  -> "rpm_upper"

\* speed['unfolding'] * rpm / 60 * 3.6
SpeedOf(unfolding, rpm) ==
    RatMul(RatDiv(RatMul(unfolding, rpm), Whole(60)), Rat(36, 10))

\* Drivetrain.speed: the loop over zip(rpm, suffixes).
RECURSIVE SpeedLoop(_, _, _)
SpeedLoop(speed, points, i) ==
    IF i > Len(points) \/ i > Len(Suffixes) THEN speed
    ELSE LET column == [r \in 1..speed.index |-> SpeedOf(speed.data["unfolding"][r], points[i])]
             withSpeed == SetItem(speed, Label("speed", Suffixes[i]), column)
         IN  SpeedLoop(SetItem(withSpeed, Label("rpm", Suffixes[i]),
                               Broadcast(withSpeed, points[i])),
                       points, i + 1)

\* Drivetrain.speed
SpeedCall(dts, frs, self, rpm) ==
    LET u == CachedUnfolding(dts, frs, self)
        tuple == AsTuple(rpm)
    IN  IF ~RpmAccepted(tuple)
        THEN [drivetrains |-> u.drivetrains, frames |-> u.frames,
              ret |-> None, raised |-> "AssertionError"]
        ELSE LET speed == SpeedLoop(u.frames[u.ret], RpmPoints(tuple), 1)
                 diameter == wheels[dts[self].wheel].diameter
             IN  [drivetrains |-> u.drivetrains,
                  frames |-> [u.frames EXCEPT ![u.ret] =
                                SetItem(speed, "tyre_diameter", Broadcast(speed, diameter))],
                  ret |-> u.ret, raised |-> ""]

(***************************************************************************)
(* State.                                                                  *)
(***************************************************************************)
Call(op, self, arg, ret, raised) ==
    [op |-> op, self |-> self, arg |-> arg, ret |-> ret, raised |-> raised]

Init ==
    /\ chainrings = <<>>
    /\ casettes = <<>>
    /\ wheels = <<>>
    /\ drivetrains = <<>>
    /\ frames = <<>>
    /\ session = [name \in {} |-> None]
    /\ last = Call("", None, <<>>, None, "")
    /\ firstRatio = <<>>

\* Chainring(cogs)
NewChainring(cogs) ==
    /\ chainrings' = Append(chainrings, NewChainringObject(cogs))
    /\ last' = Call("Chainring", None, cogs, Len(chainrings) + 1, "")
    /\ UNCHANGED <<casettes, wheels, drivetrains, frames, session, firstRatio>>

\* Casette(cogs)
NewCasette(cogs) ==
    /\ casettes' = Append(casettes, NewCasetteObject(cogs))
    /\ last' = Call("Casette", None, cogs, Len(casettes) + 1, "")
    /\ UNCHANGED <<chainrings, wheels, drivetrains, frames, session, firstRatio>>

\* Wheel(diameter) and Wheel(diameter, tyre_offset)
NewWheel(diameter, tyre_offset) ==
    /\ wheels' = Append(wheels, NewWheelObject(PyFloat(diameter), tyre_offset))
    /\ last' = Call("Wheel", None, <<diameter, tyre_offset>>, Len(wheels) + 1, "")
    /\ UNCHANGED <<chainrings, casettes, drivetrains, frames, session, firstRatio>>

\* Drivetrain(chainring, casette, wheel)
NewDrivetrain(c, k, w) ==
    /\ drivetrains' = Append(drivetrains, NewDrivetrainObject(c, k, w))
    /\ firstRatio' = Append(firstRatio, {})
    /\ last' = Call("Drivetrain", None, <<c, k, w>>, Len(drivetrains) + 1, "")
    /\ UNCHANGED <<chainrings, casettes, wheels, frames, session>>

\* Drivetrain.from_numbers(chainring, casette, wheel)
FromNumbers(chainring, casette, wheel) ==
    LET w == NewWheelObject(wheel, DefaultTyreOffset)
        arg == [chainring |-> chainring, casette |-> casette, wheel |-> wheel]
    IN  IF w.raised # ""
        THEN \* the exception leaves the two cog sets unreferenced
             /\ last' = Call("from_numbers", None, arg, None, w.raised)
             /\ UNCHANGED <<chainrings, casettes, wheels, drivetrains, frames,
                            session, firstRatio>>
        ELSE /\ chainrings' = Append(chainrings, NewChainringObject(Sorted(chainring)))
             /\ casettes' = Append(casettes, NewCasetteObject(Sorted(casette)))
             /\ wheels' = Append(wheels, w)
             /\ drivetrains' = Append(drivetrains,
                    NewDrivetrainObject(Len(chainrings) + 1, Len(casettes) + 1,
                                        Len(wheels) + 1))
             /\ firstRatio' = Append(firstRatio, {})
             /\ last' = Call("from_numbers", None, arg, Len(drivetrains) + 1, "")
             /\ UNCHANGED <<frames, session>>

\* gearrange_viewer.py: if add: ...
AddConfiguration(name, chainring, casette, tyre, tyre_offset, rpms) ==
    /\ chainrings' = Append(chainrings, NewChainringObject(Sorted(chainring)))
    /\ casettes' = Append(casettes, NewCasetteObject(Sorted(casette)))
    /\ wheels' = Append(wheels, NewWheelObject(PyFloat(tyre), tyre_offset))
    /\ drivetrains' = Append(drivetrains,
           NewDrivetrainObject(Len(chainrings) + 1, Len(casettes) + 1, Len(wheels) + 1))
    /\ firstRatio' = Append(firstRatio, {})
    /\ session' = [n \in DOMAIN session \cup {name} |->
                     IF n = name
                     THEN [drivetrain |-> Len(drivetrains) + 1, rpms |-> rpms]
                     ELSE session[n]]
    /\ last' = Call("add", None,
                    [chainring |-> chainring, casette |-> casette,
                     wheel |-> <<tyre, tyre_offset>>],
                    Len(drivetrains) + 1, "")
    /\ UNCHANGED frames

\* drivetrain.ratio
Ratio(self) ==
    LET r == CachedRatio(drivetrains, frames, self)
    IN  /\ drivetrains' = r.drivetrains
        /\ frames' = r.frames
        /\ last' = Call("ratio", self, <<>>, r.ret, "")
        /\ UNCHANGED <<chainrings, casettes, wheels, session>>

\* History: the table as it was when the first ratio call on self returned.
Observe(self) ==
    firstRatio' = IF firstRatio[self] = {}
                  THEN [firstRatio EXCEPT ![self] = {frames'[last'.ret]}]
                  ELSE firstRatio

\* drivetrain.unfolding
Unfolding(self) ==
    LET r == CachedUnfolding(drivetrains, frames, self)
    IN  /\ drivetrains' = r.drivetrains
        /\ frames' = r.frames
        /\ last' = Call("unfolding", self, <<>>, r.ret, "")
        /\ UNCHANGED <<chainrings, casettes, wheels, session, firstRatio>>

\* drivetrain.speed(rpm)
Speed(self, rpm) ==
    LET r == SpeedCall(drivetrains, frames, self, rpm)
    IN  /\ drivetrains' = r.drivetrains
        /\ frames' = r.frames
        /\ last' = Call("speed", self, rpm, r.ret, r.raised)
        /\ UNCHANGED <<chainrings, casettes, wheels, session, firstRatio>>

(***************************************************************************)
(* Spec: one Drivetrain, built in any of the three ways from any input,    *)
(* then queried.                                                           *)
(***************************************************************************)
Fresh == chainrings = <<>> /\ casettes = <<>> /\ wheels = <<>> /\ drivetrains = <<>>

\* st.multiselect returns each option at most once, in selection order.
Selections == {s \in CogLists : Cardinality(Range(s)) = Len(s)}

\* st.select_slider over a range returns a pair (lower, upper).
SliderRpms == {<<85, 95>>}

SomeRpmArgs == {PyInt(60), PyTuple(<<120, 60>>)}

Next ==
    \/ \E cogs \in CogLists : chainrings = <<>> /\ NewChainring(cogs)
    \/ \E cogs \in CogLists : casettes = <<>> /\ NewCasette(cogs)
    \/ \E d \in Diameters, t \in TyreOffsets \cup {DefaultTyreOffset} :
          wheels = <<>> /\ NewWheel(d, t)
    \/ \E c \in DOMAIN chainrings, k \in DOMAIN casettes, w \in DOMAIN wheels :
          drivetrains = <<>> /\ NewDrivetrain(c, k, w)
    \/ \E c \in CogLists, k \in CogLists, w \in WheelArgs :
          Fresh /\ FromNumbers(c, k, w)
    \/ \E name \in Names, c \in Selections, k \in Selections, d \in Diameters,
          t \in TyreOffsets \cup {DefaultTyreOffset}, rpms \in SliderRpms :
          Fresh /\ AddConfiguration(name, c, k, d, t, rpms)
    \/ \E self \in DOMAIN drivetrains : Ratio(self) /\ UNCHANGED firstRatio
    \/ \E self \in DOMAIN drivetrains : Unfolding(self)
    \/ \E self \in DOMAIN drivetrains, rpm \in SomeRpmArgs : Speed(self, rpm)

Spec == Init /\ [][Next]_vars

(***************************************************************************)
(* QuerySpec: one Drivetrain of a 2 x 2 gearing, queried in any order with *)
(* every cadence argument.                                                 *)
(***************************************************************************)
QueryNext ==
    \/ \E w \in WheelArgs : Fresh /\ FromNumbers(<<3, 2>>, <<3, 2>>, w)
    \/ \E self \in DOMAIN drivetrains : Ratio(self) /\ Observe(self)
    \/ \E self \in DOMAIN drivetrains : Unfolding(self)
    \/ \E self \in DOMAIN drivetrains, rpm \in RpmArgs : Speed(self, rpm)

QuerySpec == Init /\ [][QueryNext]_vars

(***************************************************************************)
(* SessionSpec: several Drivetrains, some built from the same Chainring,   *)
(* Casette and Wheel objects, some from the same raw lists.                *)
(***************************************************************************)
SessionRpmArgs == {PyTuple(<<120, 60>>)}

SessionNext ==
    \/ chainrings = <<>> /\ NewChainring(<<2, 3>>)
    \/ chainrings # <<>> /\ casettes = <<>> /\ NewCasette(<<2>>)
    \/ \E d \in Diameters :
          casettes # <<>> /\ wheels = <<>> /\ NewWheel(d, DefaultTyreOffset)
    \/ \E c \in DOMAIN chainrings, k \in DOMAIN casettes, w \in DOMAIN wheels :
          Len(drivetrains) < MaxDrivetrains /\ NewDrivetrain(c, k, w)
    \/ \E name \in Names, d \in Diameters, rpms \in SliderRpms :
          wheels # <<>> /\ Len(drivetrains) < MaxDrivetrains
            /\ AddConfiguration(name, <<3, 2>>, <<2>>, d, DefaultTyreOffset, rpms)
    \/ \E self \in DOMAIN drivetrains : Ratio(self) /\ UNCHANGED firstRatio
    \/ \E self \in DOMAIN drivetrains : Unfolding(self)
    \/ \E self \in DOMAIN drivetrains, rpm \in SessionRpmArgs : Speed(self, rpm)

SessionSpec == Init /\ [][SessionNext]_vars

(***************************************************************************)
(* Properties.                                                             *)
(***************************************************************************)
IsAscending(s) == \A i \in 1..(Len(s) - 1) : s[i] <= s[i + 1]

Count(s, x) == Cardinality({i \in 1..Len(s) : s[i] = x})

SameValues(s, t) ==
    /\ Len(s) = Len(t)
    /\ \A x \in Range(s) \cup Range(t) : Count(s, x) = Count(t, x)

Min2(t) == IF t[1] <= t[2] THEN t[1] ELSE t[2]

Max2(t) == IF t[1] <= t[2] THEN t[2] ELSE t[1]

SpeedLabels == {"speed_lower", "speed_middle", "speed_upper"}

RpmLabels == {"rpm_lower", "rpm_middle", "rpm_upper"}

\* The part of a table that speed() writes.
SpeedPart(df) ==
    [c \in Range(df.columns) \cap (SpeedLabels \cup RpmLabels \cup {"tyre_diameter"}) |->
        df.data[c]]

IsQuery(call) == call.op \in {"ratio", "unfolding", "speed"}

IsPair(call) ==
    call.op = "speed" /\ call.raised = "" /\ call.arg.type = "tuple"
        /\ Len(call.arg.value) = 2

Held(e) == {drivetrains[e].ratio, drivetrains[e].unfolding} \ {None}

\* C1: every ratio() call returns the table as it was when the first ratio()
\* call on the same Drivetrain returned (same columns, rows and order),
\* whatever ratio(), unfolding() and speed() calls were made in between.
C1_RatioCallsReturnEqualTables ==
    last.op = "ratio" => firstRatio[last.self] = {frames[last.ret]}

\* C2: the ratio table of a Drivetrain with m chainring cogs and n cassette
\* cogs has m*n rows, row (i-1)*n + j holding the i-th chainring cog, the
\* j-th cassette cog and their quotient.
C2_RatioTableIsCrossProduct ==
    \A self \in DOMAIN drivetrains :
        drivetrains[self].ratio # None =>
            LET df == frames[drivetrains[self].ratio]
                c == chainrings[drivetrains[self].chainring].cogs
                k == casettes[drivetrains[self].casette].cogs
            IN  /\ df.index = Len(c) * Len(k)
                /\ \A label \in {"chain_cog", "casette_cog", "ratio"} :
                      /\ label \in Range(df.columns)
                      /\ Len(df.data[label]) = Len(c) * Len(k)
                /\ \A i \in 1..Len(c), j \in 1..Len(k) :
                      LET row == (i - 1) * Len(k) + j
                      IN  /\ df.data["chain_cog"][row] = c[i]
                          /\ df.data["casette_cog"][row] = k[j]
                          /\ df.data["ratio"][row].n * k[j] = df.data["ratio"][row].d * c[i]

C2_Witness ==
    /\ last.op = "ratio"
    /\ chainrings[drivetrains[last.self].chainring].cogs = <<2, 3>>
    /\ casettes[drivetrains[last.self].casette].cogs = <<3, 2>>
    /\ frames[last.ret].index = 4

\* C3: the table speed() returns has exactly one speed column and one rpm
\* column for a single-integer cadence, and exactly three of each for a
\* two-value cadence, whatever speed() calls were made before.
C3_SpeedColumnCount ==
    (last.op = "speed" /\ last.raised = "") =>
        LET labels == Range(frames[last.ret].columns)
            n == IF last.arg.type = "int" THEN 1 ELSE 3
        IN  (last.arg.type = "int" \/ Len(last.arg.value) = 2) =>
                /\ Cardinality(labels \cap SpeedLabels) = n
                /\ Cardinality(labels \cap RpmLabels) = n

\* C4: for a two-value cadence in either order every row has rpm_lower = the
\* smaller value, rpm_upper = the larger, rpm_middle = lower + (upper - lower)/2,
\* and each speed column is computed from the rpm column of the same suffix.
C4_PairGivesThreePoints ==
    IsPair(last) =>
        LET df == frames[last.ret]
            lower == Min2(last.arg.value)
            upper == Max2(last.arg.value)
        IN  /\ SpeedLabels \cup RpmLabels \subseteq Range(df.columns)
            /\ \A r \in 1..df.index :
                  /\ df.data["rpm_lower"][r] = [n |-> lower, d |-> 1]
                  /\ df.data["rpm_upper"][r] = [n |-> upper, d |-> 1]
                  /\ df.data["rpm_middle"][r].n * 2
                        = (2 * lower + (upper - lower)) * df.data["rpm_middle"][r].d
                  /\ \A x \in Range(Suffixes) :
                        df.data[Label("speed", x)][r]
                          = SpeedOf(df.data["unfolding"][r], df.data[Label("rpm", x)][r])

C4_Witness ==
    /\ IsPair(last)
    /\ last.arg.value = <<120, 60>>
    /\ frames[last.ret].index = 4
    /\ frames[last.ret].data["rpm_middle"][1] = [n |-> 90, d |-> 1]

\* C5: speed() with three or more cadence values raises, returns no table
\* and writes no speed, rpm or tyre_diameter value into any table.
C5_LongCadenceRejected ==
    [][(last'.op = "speed" /\ last'.arg.type = "tuple" /\ Len(last'.arg.value) >= 3) =>
          /\ last'.raised = "AssertionError"
          /\ last'.ret = None
          /\ \A id \in DOMAIN frames' :
                SpeedPart(frames'[id])
                  = IF id \in DOMAIN frames THEN SpeedPart(frames[id]) ELSE <<>>]_vars

C5_Witness ==
    /\ last.op = "speed"
    /\ last.raised = "AssertionError"
    /\ Len(last.arg.value) >= 3
    /\ drivetrains[last.self].unfolding # None
    /\ "speed_upper" \in Range(frames[drivetrains[last.self].unfolding].columns)

\* C6: constructing a Chainring or Casette from an empty collection fails
\* with InvalidInput, and no cog set held by the program is empty.
C6_EmptyCogSetRejected ==
    /\ (last.op \in {"Chainring", "Casette"} /\ last.arg = <<>>) =>
          last.raised = "InvalidInput"
    /\ \A i \in DOMAIN chainrings : chainrings[i].cogs # <<>>
    /\ \A i \in DOMAIN casettes : casettes[i].cogs # <<>>

\* C7: a Chainring or Casette constructed from a non-empty list stores the
\* values of the list in ascending order, duplicates kept.
C7_ConstructorSorts ==
    (last.op \in {"Chainring", "Casette"} /\ last.arg # <<>>) =>
        LET cogs == IF last.op = "Chainring" THEN chainrings[last.ret].cogs
                    ELSE casettes[last.ret].cogs
        IN  IsAscending(cogs) /\ SameValues(cogs, last.arg)

\* C8: from_numbers(chainring, casette, (d, t)) returns a Drivetrain with both
\* cog lists sorted and wheel diameter d + 2*t (t = 20 when not given), and
\* speed() writes that diameter as tyre_diameter on every row.
C8_FromNumbers ==
    /\ last.op = "from_numbers" =>
          /\ last.raised = ""
          /\ last.ret \in DOMAIN drivetrains
          /\ LET dt == drivetrains[last.ret]
                 w == last.arg.wheel
                 d == IF w.type = "tuple" THEN w.value[1] ELSE w.value
                 t == IF w.type = "tuple" THEN w.value[2] ELSE DefaultTyreOffset
             IN  /\ IsAscending(chainrings[dt.chainring].cogs)
                 /\ SameValues(chainrings[dt.chainring].cogs, last.arg.chainring)
                 /\ IsAscending(casettes[dt.casette].cogs)
                 /\ SameValues(casettes[dt.casette].cogs, last.arg.casette)
                 /\ wheels[dt.wheel].diameter = d + 2 * t
    /\ (last.op = "speed" /\ last.raised = "") =>
          \A r \in 1..frames[last.ret].index :
              frames[last.ret].data["tyre_diameter"][r]
                = wheels[drivetrains[last.self].wheel].diameter

\* C9: a ratio(), unfolding() or speed() call on one Drivetrain leaves every
\* table held by any other Drivetrain, and that Drivetrain's caches, as
\* they were.
C9_InstancesAreIndependent ==
    [][\A e \in DOMAIN drivetrains :
          (IsQuery(last') /\ last'.self # e) =>
              /\ drivetrains'[e] = drivetrains[e]
              /\ \A id \in Held(e) : frames'[id] = frames[id]]_vars

C9_Witness ==
    \E d, e \in DOMAIN drivetrains :
        /\ d # e
        /\ drivetrains[d].chainring = drivetrains[e].chainring
        /\ drivetrains[d].casette = drivetrains[e].casette
        /\ drivetrains[d].wheel = drivetrains[e].wheel
        /\ last.op = "speed" /\ last.self = d /\ last.raised = ""
        /\ drivetrains[e].ratio # None
        /\ drivetrains[e].ratio # drivetrains[d].ratio
        /\ frames[drivetrains[e].ratio].columns = <<"chain_cog", "casette_cog", "ratio">>

\* C10: for a two-value cadence in either order every row has
\* rpm_lower <= rpm_middle <= rpm_upper and
\* speed_lower <= speed_middle <= speed_upper.
C10_BandsAreOrdered ==
    IsPair(last) =>
        LET df == frames[last.ret]
        IN  \A r \in 1..df.index :
                /\ RatLeq(df.data["rpm_lower"][r], df.data["rpm_middle"][r])
                /\ RatLeq(df.data["rpm_middle"][r], df.data["rpm_upper"][r])
                /\ RatLeq(df.data["speed_lower"][r], df.data["speed_middle"][r])
                /\ RatLeq(df.data["speed_middle"][r], df.data["speed_upper"][r])

C10_Witness ==
    /\ IsPair(last)
    /\ last.arg.value = <<60, 120>>
    /\ frames[last.ret].index = 4
    /\ ~RatLeq(frames[last.ret].data["speed_upper"][1],
               frames[last.ret].data["speed_lower"][1])

=============================================================================
